---- MODULE Spec2Model ----
(***************************************************************************)
(* Model of pkg/river/vm/internal/stdlib/stdlib.go: the ctyencode encoder  *)
(* (Encode and its type-constructor handlers).  Encode is a pure           *)
(* recursive function, so every handler is an operator computed as the Go  *)
(* code computes it; the specification draws a native value and a target   *)
(* type from bounded sets and applies Encode to them.                      *)
(***************************************************************************)
EXTENDS Integers, Sequences, FiniteSets, TLC

\* Longest native sequence (slice, array, set container) that is drawn.
MaxLen == 2
\* Deepest chain of pointers/interfaces wrapped around a drawn native.
MaxPtr == 2

(***************************************************************************)
(* cty.Type: the target types.                                             *)
(***************************************************************************)
Bool == [c |-> "Bool"]
Number == [c |-> "Number"]
String == [c |-> "String"]
DynamicPseudoType == [c |-> "Dynamic"]
List(ety) == [c |-> "List", e |-> ety]
Map(ety) == [c |-> "Map", e |-> ety]
Set(ety) == [c |-> "Set", e |-> ety]
Object(attrTypes) == [c |-> "Object", attrs |-> attrTypes]
Tuple(elemTypes) == [c |-> "Tuple", elems |-> elemTypes]
Capsule(encapsulated) == [c |-> "Capsule", enc |-> encapsulated]

\* A function with no arguments: map[string]T{} in Go.
EmptyFcn == [x \in {} |-> x]

(***************************************************************************)
(* cty.Value: the typed values the encoder builds.                         *)
(***************************************************************************)
NilVal == [vk |-> "nil"]
NullVal(ty) == [vk |-> "null", ty |-> ty]
BoolVal(b) == [vk |-> "bool", b |-> b]
NumberVal(n) == [vk |-> "num", n |-> n]
StringVal(s) == [vk |-> "str", s |-> s]
CapsuleVal(ty, ref) == [vk |-> "capsule", ty |-> ty, ref |-> ref]

RECURSIVE TypeOf(_)
\* Value.Type(): the type a typed value inhabits.
TypeOf(v) ==
    CASE v.vk = "null" -> v.ty
      [] v.vk = "bool" -> Bool
      [] v.vk = "num" -> Number
      [] v.vk = "str" -> String
      [] v.vk = "list" -> List(v.ety)
      [] v.vk = "map" -> Map(v.ety)
      [] v.vk = "set" -> Set(v.ety)
      [] v.vk = "object" -> Object([a \in DOMAIN v.attrs |-> TypeOf(v.attrs[a])])
      [] v.vk = "tuple" -> Tuple([i \in DOMAIN v.elems |-> TypeOf(v.elems[i])])
      [] v.vk = "capsule" -> v.ty
      [] OTHER -> DynamicPseudoType

ListValEmpty(ety) == [vk |-> "list", ety |-> ety, elems |-> <<>>]
\* cty.ListVal: the element type is taken from the elements.
ListVal(vals) == [vk |-> "list", ety |-> TypeOf(vals[1]), elems |-> vals]
MapValEmpty(ety) == [vk |-> "map", ety |-> ety, entries |-> EmptyFcn]
MapVal(vals) ==
    [vk |-> "map",
     ety |-> TypeOf(vals[CHOOSE k \in DOMAIN vals : TRUE]),
     entries |-> vals]
SetValEmpty(ety) == [vk |-> "set", ety |-> ety, members |-> {}]
\* cty.SetVal: a set holds each distinct element once.
SetVal(vals) ==
    [vk |-> "set",
     ety |-> TypeOf(vals[1]),
     members |-> {vals[i] : i \in DOMAIN vals}]
ObjectVal(attrs) == [vk |-> "object", attrs |-> attrs]
EmptyObjectVal == ObjectVal(EmptyFcn)
TupleVal(elems) == [vk |-> "tuple", elems |-> elems]
EmptyTupleVal == TupleVal(<<>>)

(***************************************************************************)
(* convert.Convert of the value model, for null and scalar inputs.         *)
(***************************************************************************)
Nums == {1, 2}
Strs == {"a", "1", "true"}

\* Whether the string is the decimal form of a number of the model.
IsNumeric(s) == \E n \in Nums : ToString(n) = s
ParseNumber(s) == CHOOSE n \in Nums : ToString(n) = s

\* Whether the value model has a conversion between two distinct types.
HasConversion(from, to) ==
    \/ from = DynamicPseudoType
    \/ <<from, to>> \in {<<String, Number>>, <<String, Bool>>,
                         <<Number, String>>, <<Bool, String>>}

ConvOk(v) == [ok |-> TRUE, val |-> v]
ConvFail == [ok |-> FALSE, val |-> NilVal]

Convert(in, want) ==
    IF in = NilVal THEN ConvFail
    ELSE IF TypeOf(in) = want THEN ConvOk(in)
    ELSE IF want = DynamicPseudoType THEN ConvOk(in)
    ELSE IF ~HasConversion(TypeOf(in), want) THEN ConvFail
    ELSE IF in.vk = "null" THEN ConvOk(NullVal(want))
    ELSE IF in.vk = "num" THEN ConvOk(StringVal(ToString(in.n)))
    ELSE IF in.vk = "bool"
      THEN ConvOk(StringVal(IF in.b THEN "true" ELSE "false"))
    ELSE IF want = Number
      THEN IF IsNumeric(in.s) THEN ConvOk(NumberVal(ParseNumber(in.s)))
           ELSE ConvFail
    ELSE IF in.s \in {"true", "1"} THEN ConvOk(BoolVal(TRUE))
    ELSE IF in.s \in {"false", "0"} THEN ConvOk(BoolVal(FALSE))
    ELSE ConvFail

(***************************************************************************)
(* Native values as reflect sees them.  A native is a record with its      *)
(* kind in k; a reflect.Value pairs a native with its addressability.      *)
(***************************************************************************)
Invalid == [k |-> "invalid"]
NilPtr == [k |-> "ptr", nil |-> TRUE]
PtrTo(n) == [k |-> "ptr", nil |-> FALSE, elem |-> n]
NilIface == [k |-> "iface", nil |-> TRUE]
Iface(n) == [k |-> "iface", nil |-> FALSE, elem |-> n]
GoBool(b) == [k |-> "bool", b |-> b]
GoInt(n) == [k |-> "int", n |-> n]
GoUint(n) == [k |-> "uint", n |-> n]
GoFloat(n) == [k |-> "float", n |-> n]
GoString(s) == [k |-> "string", s |-> s]
NilSlice == [k |-> "slice", nil |-> TRUE, elems |-> <<>>]
Slice(elems) == [k |-> "slice", nil |-> FALSE, elems |-> elems]
Array(elems) == [k |-> "array", elems |-> elems]
\* keykind is the kind of the map's key type; entries maps keys to natives.
NilMap(keykind) ==
    [k |-> "map", nil |-> TRUE, keykind |-> keykind, entries |-> EmptyFcn]
GoMap(keykind, entries) ==
    [k |-> "map", nil |-> FALSE, keykind |-> keykind, entries |-> entries]
\* A struct of the program: its fields in order, each with its river tag
\* ("" when the field has none).
Struct(fields) == [k |-> "struct", gotype |-> "user", fields |-> fields]
Field(tag, n) == [tag |-> tag, n |-> n]
BigInt(n) == [k |-> "struct", gotype |-> "big.Int", n |-> n]
BigFloat(n) == [k |-> "struct", gotype |-> "big.Float", n |-> n]
\* A cty.Value handed in as a native: an already-typed value.
CtyValue(v) == [k |-> "struct", gotype |-> "cty.Value", v |-> v]
\* A set.Set container; vals is what its Values() returns.
SetContainer(vals) == [k |-> "struct", gotype |-> "set.Set", vals |-> vals]

\* reflect.Value{}: the zero Value.
ZeroValue == [n |-> Invalid, addr |-> FALSE]
\* reflect.ValueOf(x): a top-level value is not addressable; a nil interface
\* gives the zero Value.
ValueOf(n) == [n |-> n, addr |-> FALSE]
IsValid(val) == val.n.k # "invalid"
Kind(val) == val.n.k
IsNil(val) == val.n.nil
\* Value.Elem: what a pointer points to is addressable, what an interface
\* holds is not.
Elem(val) == [n |-> val.n.elem, addr |-> val.n.k = "ptr"]
\* Value.Len of a slice or array, and of a map.
SeqLen(val) == Len(val.n.elems)
MapLen(val) == Cardinality(DOMAIN val.n.entries)
\* Value.Index (i counts from 0): slice elements are addressable, array
\* elements are if the array is.
Index(val, i) ==
    [n |-> val.n.elems[i + 1], addr |-> (val.n.k = "slice") \/ val.addr]
MapIndex(val, key) == [n |-> val.n.entries[key], addr |-> FALSE]
NumField(val) == Len(val.n.fields)
FieldAt(val, i) == [n |-> val.n.fields[i + 1].n, addr |-> val.addr]
\* val.Type().AssignableTo(valueType)
IsCtyValue(val) == val.n.k = "struct" /\ val.n.gotype = "cty.Value"

\* Value.CanAddr, and Value.Addr: a pointer to an addressable value.
CanAddr(val) == val.addr
Addr(val) == [n |-> PtrTo(val.n), addr |-> FALSE]

RECURSIVE GoTypeOf(_)
\* The Go type of a value, as far as the capsule handler compares and names
\* it: the pointer type of a pointer, the struct type of a struct, the kind
\* of anything else.
GoTypeOf(n) ==
    IF n.k = "struct" THEN n.gotype
    ELSE IF n.k = "ptr" /\ ~n.nil THEN "*" \o GoTypeOf(n.elem)
    ELSE n.k

(***************************************************************************)
(* cty.Path and the errors made from it.                                   *)
(***************************************************************************)
IndexStep(i) == [idx |-> i]
KeyStep(key) == [key |-> key]
GetAttrStep(name) == [attr |-> name]
\* cty.PathStep(nil): the placeholder a handler appends before its loop.
NilStep == [nilstep |-> TRUE]
\* path = append(path, cty.PathStep(nil))
Grow(path) == Append(path, NilStep)
\* The step put behind the placeholder instead of in its place.
SetLastAppend(path, step) == Append(path, step)
\* path[len(path)-1] = step
SetLast(path, step) == [path EXCEPT ![Len(path)] = step]

NoErr == [cause |-> "none"]
\* path.NewErrorf: the error holds a copy of the path.
NewErrorf(path, cause, info) == [cause |-> cause, path |-> path, info |-> info]

\* What a handler returns: (cty.Value, error), and the encode calls it made,
\* in the order it made them.
Ret(v) == [val |-> v, err |-> NoErr, calls |-> <<>>]
Fail(e) == [val |-> NilVal, err |-> e, calls |-> <<>>]
Failed(r) == r.err # NoErr

\* The order in which one call iterates Go maps (range over a map, MapKeys)
\* and a set container's Values(): Go fixes neither.  keys is the order of
\* the map keys, rev whether Values() come reversed.
Keys == {"a", "b"}
Orders ==
    {[keys |-> p, rev |-> r] : p \in {<<"a", "b">>, <<"b", "a">>}, r \in BOOLEAN}
\* The members of a set of keys in the iteration order.
InOrder(ord, S) == SelectSeq(ord.keys, LAMBDA k : k \in S)
Reverse(s) == [i \in 1..Len(s) |-> s[Len(s) + 1 - i]]

\* unwrapPointer with its loop run once: only the outermost pointer or
\* interface is dereferenced.
unwrapPointerOnce(val) ==
    IF Kind(val) \in {"ptr", "iface"}
      THEN IF IsNil(val) THEN ZeroValue ELSE Elem(val)
      ELSE val

RECURSIVE unwrapPointer(_)
unwrapPointer(val) ==
    IF Kind(val) \in {"ptr", "iface"}
      THEN IF IsNil(val) THEN ZeroValue ELSE unwrapPointer(Elem(val))
      ELSE val

encodeBool(val, path) ==
    LET v == unwrapPointer(val) IN
    IF ~IsValid(v) THEN Ret(NullVal(Bool))
    ELSE IF Kind(v) = "bool" THEN Ret(BoolVal(v.n.b))
    ELSE Fail(NewErrorf(path, "kind", <<>>))

encodeNumber(val, path) ==
    LET v == unwrapPointer(val) IN
    IF ~IsValid(v) THEN Ret(NullVal(Number))
    ELSE IF Kind(v) \in {"int", "uint", "float"} THEN Ret(NumberVal(v.n.n))
    ELSE IF Kind(v) = "struct" /\ v.n.gotype \in {"big.Int", "big.Float"}
      THEN Ret(NumberVal(v.n.n))
    ELSE Fail(NewErrorf(path, "kind", <<>>))

encodeString(val, path) ==
    LET v == unwrapPointer(val) IN
    IF ~IsValid(v) THEN Ret(NullVal(String))
    ELSE IF Kind(v) = "string" THEN Ret(StringVal(v.n.s))
    ELSE Fail(NewErrorf(path, "kind", <<>>))

\* encodeCapsule taking a value that is not addressable as well: it holds a
\* pointer to a copy.
encodeCapsuleOfCopy(val, capsuleType, path) ==
    LET v == unwrapPointer(val)
        p == IF Kind(v) # "ptr" THEN Addr(v) ELSE v
    IN
    IF ~IsValid(v) THEN Ret(NullVal(capsuleType))
    ELSE IF GoTypeOf(p.n.elem) # capsuleType.enc
      THEN Fail(NewErrorf(path, "capsule_type", <<GoTypeOf(p.n), capsuleType>>))
    ELSE Ret(CapsuleVal(capsuleType, p.n))

encodeCapsule(val, capsuleType, path) ==
    LET v == unwrapPointer(val)
        p == IF Kind(v) # "ptr" THEN Addr(v) ELSE v
    IN
    IF ~IsValid(v) THEN Ret(NullVal(capsuleType))
    ELSE IF Kind(v) # "ptr" /\ ~CanAddr(v)
      THEN Fail(NewErrorf(path, "capsule_addr", <<capsuleType>>))
    ELSE IF GoTypeOf(p.n.elem) # capsuleType.enc
      THEN Fail(NewErrorf(path, "capsule_type", <<GoTypeOf(p.n), capsuleType>>))
    ELSE Ret(CapsuleVal(capsuleType, p.n))

encodeDynamic(val, path) ==
    LET v == unwrapPointer(val) IN
    IF ~IsValid(v) THEN Ret(NullVal(DynamicPseudoType))
    ELSE IF Kind(v) = "struct" /\ v.n.gotype = "cty.Value" THEN Ret(v.n.v)
    ELSE Fail(NewErrorf(path, "dynamic", <<>>))

\* encodePassthruogh handing the given value back without converting it.
encodePassthruoghUnconverted(wrappedVal, wantTy, path) ==
    LET v == unwrapPointer(wrappedVal) IN
    IF ~IsValid(v) THEN Ret(NullVal(wantTy)) ELSE Ret(v.n.v)

encodePassthruogh(wrappedVal, wantTy, path) ==
    LET v == unwrapPointer(wrappedVal) IN
    IF ~IsValid(v) THEN Ret(NullVal(wantTy))
    ELSE LET conv == Convert(v.n.v, wantTy) IN
         IF ~conv.ok THEN Fail(NewErrorf(path, "passthrough", <<>>))
         ELSE Ret(conv.val)

RECURSIVE encode(_, _, _, _)

\* The loop of encodeList over the elements from index i on.
RECURSIVE encodeListLoop(_, _, _, _, _, _, _)
\* The loop putting each encoded element in front of the earlier ones.
encodeListLoopPrepend(val, ety, path, ord, i, vals, calls) ==
    IF i = SeqLen(val)
      THEN [val |-> ListVal(vals), err |-> NoErr, calls |-> calls]
      ELSE LET r == encode(Index(val, i), ety, SetLast(path, IndexStep(i)), ord) IN
           IF Failed(r)
             THEN [val |-> NilVal, err |-> r.err, calls |-> calls \o r.calls]
             ELSE encodeListLoop(val, ety, path, ord, i + 1,
                                 <<r.val>> \o vals, calls \o r.calls)

\* The loop encoding the remaining elements after one failed, and returning
\* the first error at the end.
encodeListLoopCollect(val, ety, path, ord, i, vals, calls) ==
    IF i = SeqLen(val)
      THEN [val |-> ListVal(vals), err |-> NoErr, calls |-> calls]
      ELSE LET r == encode(Index(val, i), ety, SetLast(path, IndexStep(i)), ord) IN
           IF Failed(r)
             THEN LET rest == encodeListLoop(val, ety, path, ord, i + 1,
                                             Append(vals, r.val),
                                             calls \o r.calls)
                  IN [val |-> NilVal, err |-> r.err, calls |-> rest.calls]
             ELSE encodeListLoop(val, ety, path, ord, i + 1,
                                 Append(vals, r.val), calls \o r.calls)

encodeListLoop(val, ety, path, ord, i, vals, calls) ==
    IF i = SeqLen(val)
      THEN [val |-> ListVal(vals), err |-> NoErr, calls |-> calls]
      ELSE LET r == encode(Index(val, i), ety, SetLast(path, IndexStep(i)), ord) IN
           IF Failed(r)
             THEN [val |-> NilVal, err |-> r.err, calls |-> calls \o r.calls]
             ELSE encodeListLoop(val, ety, path, ord, i + 1,
                                 Append(vals, r.val), calls \o r.calls)

encodeList(val, ety, path, ord) ==
    LET v == unwrapPointer(val) IN
    IF ~IsValid(v) THEN Ret(NullVal(List(ety)))
    ELSE IF Kind(v) = "slice" /\ IsNil(v) THEN Ret(NullVal(List(ety)))
    ELSE IF Kind(v) \in {"slice", "array"}
      THEN IF SeqLen(v) = 0 THEN Ret(ListValEmpty(ety))
           ELSE encodeListLoop(v, ety, Grow(path), ord, 0, <<>>, <<>>)
    ELSE Fail(NewErrorf(path, "kind", <<>>))

\* The loop of encodeMap over val.MapKeys() from position i (from 1) on.
RECURSIVE encodeMapLoop(_, _, _, _, _, _, _, _)
\* The loop of encodeMap naming each value by its position among the keys
\* instead of by its key.
encodeMapLoopByPosition(val, ety, path, ord, keys, i, vals, calls) ==
    IF i > Len(keys)
      THEN [val |-> MapVal(vals), err |-> NoErr, calls |-> calls]
      ELSE LET k == keys[i]
               r == encode(MapIndex(val, k), ety, SetLast(path, IndexStep(i - 1)), ord)
           IN
           IF Failed(r)
             THEN [val |-> NilVal, err |-> r.err, calls |-> calls \o r.calls]
             ELSE encodeMapLoop(val, ety, path, ord, keys, i + 1,
                                (k :> r.val) @@ vals, calls \o r.calls)

encodeMapLoop(val, ety, path, ord, keys, i, vals, calls) ==
    IF i > Len(keys)
      THEN [val |-> MapVal(vals), err |-> NoErr, calls |-> calls]
      ELSE LET k == keys[i]
               r == encode(MapIndex(val, k), ety, SetLast(path, KeyStep(k)), ord)
           IN
           IF Failed(r)
             THEN [val |-> NilVal, err |-> r.err, calls |-> calls \o r.calls]
             ELSE encodeMapLoop(val, ety, path, ord, keys, i + 1,
                                (k :> r.val) @@ vals, calls \o r.calls)

\* encodeMap without its IsNil test: a nil map has length 0.
encodeMapNilAsEmpty(val, ety, path, ord) ==
    LET v == unwrapPointer(val) IN
    IF ~IsValid(v) THEN Ret(NullVal(Map(ety)))
    ELSE IF Kind(v) = "map"
      THEN IF MapLen(v) = 0 THEN Ret(MapValEmpty(ety))
           ELSE IF v.n.keykind # "string"
             THEN Fail(NewErrorf(path, "mapkey", <<>>))
           ELSE encodeMapLoop(v, ety, Grow(path), ord,
                              InOrder(ord, DOMAIN v.n.entries), 1, EmptyFcn, <<>>)
    ELSE Fail(NewErrorf(path, "kind", <<>>))

encodeMap(val, ety, path, ord) ==
    LET v == unwrapPointer(val) IN
    IF ~IsValid(v) THEN Ret(NullVal(Map(ety)))
    ELSE IF Kind(v) = "map"
      THEN IF IsNil(v) THEN Ret(NullVal(Map(ety)))
           ELSE IF MapLen(v) = 0 THEN Ret(MapValEmpty(ety))
           ELSE IF v.n.keykind # "string"
             THEN Fail(NewErrorf(path, "mapkey", <<>>))
           ELSE encodeMapLoop(v, ety, Grow(path), ord,
                              InOrder(ord, DOMAIN v.n.entries), 1, EmptyFcn, <<>>)
    ELSE Fail(NewErrorf(path, "kind", <<>>))

\* The loops of encodeSet: over the elements of a sequence from index i on.
RECURSIVE encodeSetLoop(_, _, _, _, _, _, _)
\* The loop of encodeSet putting an index step on the path for each element,
\* as the loop of encodeList does.
encodeSetLoopIndexed(val, ety, path, ord, i, vals, calls) ==
    IF i = SeqLen(val)
      THEN [val |-> SetVal(vals), err |-> NoErr, calls |-> calls]
      ELSE LET r == encode(Index(val, i), ety, Append(path, IndexStep(i)), ord) IN
           IF Failed(r)
             THEN [val |-> NilVal, err |-> r.err, calls |-> calls \o r.calls]
             ELSE encodeSetLoop(val, ety, path, ord, i + 1,
                                Append(vals, r.val), calls \o r.calls)

encodeSetLoop(val, ety, path, ord, i, vals, calls) ==
    IF i = SeqLen(val)
      THEN [val |-> SetVal(vals), err |-> NoErr, calls |-> calls]
      ELSE LET r == encode(Index(val, i), ety, path, ord) IN
           IF Failed(r)
             THEN [val |-> NilVal, err |-> r.err, calls |-> calls \o r.calls]
             ELSE encodeSetLoop(val, ety, path, ord, i + 1,
                                Append(vals, r.val), calls \o r.calls)

\* ... and over inVals, the Values() of a set container, from position i on.
RECURSIVE encodeSetValuesLoop(_, _, _, _, _, _, _)
encodeSetValuesLoop(inVals, ety, path, ord, i, vals, calls) ==
    IF i > Len(inVals)
      THEN [val |-> SetVal(vals), err |-> NoErr, calls |-> calls]
      ELSE LET r == encode(ValueOf(inVals[i]), ety, path, ord) IN
           IF Failed(r)
             THEN [val |-> NilVal, err |-> r.err, calls |-> calls \o r.calls]
             ELSE encodeSetValuesLoop(inVals, ety, path, ord, i + 1,
                                      Append(vals, r.val), calls \o r.calls)

\* rawSet.Values(): the members in an order Go does not fix.
Values(n, ord) == IF ord.rev THEN Reverse(n.vals) ELSE n.vals

encodeSet(val, ety, path, ord) ==
    LET v == unwrapPointer(val) IN
    IF ~IsValid(v) THEN Ret(NullVal(Set(ety)))
    ELSE IF Kind(v) = "slice" /\ IsNil(v) THEN Ret(NullVal(Set(ety)))
    ELSE IF Kind(v) \in {"slice", "array"}
      THEN IF SeqLen(v) = 0 THEN Ret(SetValEmpty(ety))
           ELSE encodeSetLoop(v, ety, path, ord, 0, <<>>, <<>>)
    ELSE IF Kind(v) = "struct"
      THEN IF v.n.gotype # "set.Set" THEN Fail(NewErrorf(path, "kind", <<>>))
           ELSE IF Len(v.n.vals) = 0 THEN Ret(SetValEmpty(ety))
           ELSE encodeSetValuesLoop(Values(v.n, ord), ety, path, ord, 1, <<>>, <<>>)
    ELSE Fail(NewErrorf(path, "kind", <<>>))

\* The loop of encodeObject over a mapping, through the declared attributes
\* names (in the order the range over attrTypes gives) from position i on.
RECURSIVE encodeObjectMapLoop(_, _, _, _, _, _, _, _)
\* The loop refusing a declared attribute that the mapping does not have.
encodeObjectMapLoopStrict(val, attrTypes, path, ord, names, i, vals, calls) ==
    IF i > Len(names)
      THEN [val |-> ObjectVal(vals), err |-> NoErr, calls |-> calls]
      ELSE LET k == names[i]
               at == attrTypes[k]
               haveKeys == DOMAIN val.n.entries
           IN
           IF k \notin haveKeys
             THEN [val |-> NilVal,
                   err |-> NewErrorf(SetLast(path, GetAttrStep(k)), "missing", <<>>),
                   calls |-> calls]
             ELSE LET r == encode(MapIndex(val, k), at,
                                  SetLast(path, GetAttrStep(k)), ord)
                  IN
                  IF Failed(r)
                    THEN [val |-> NilVal, err |-> r.err,
                          calls |-> calls \o r.calls]
                    ELSE encodeObjectMapLoop(val, attrTypes, path, ord, names,
                                             i + 1, (k :> r.val) @@ vals,
                                             calls \o r.calls)

encodeObjectMapLoop(val, attrTypes, path, ord, names, i, vals, calls) ==
    IF i > Len(names)
      THEN [val |-> ObjectVal(vals), err |-> NoErr, calls |-> calls]
      ELSE LET k == names[i]
               at == attrTypes[k]
               haveKeys == DOMAIN val.n.entries
           IN
           IF k \notin haveKeys
             THEN encodeObjectMapLoop(val, attrTypes, path, ord, names, i + 1,
                                      (k :> NullVal(at)) @@ vals, calls)
             ELSE LET r == encode(MapIndex(val, k), at,
                                  SetLast(path, GetAttrStep(k)), ord)
                  IN
                  IF Failed(r)
                    THEN [val |-> NilVal, err |-> r.err,
                          calls |-> calls \o r.calls]
                    ELSE encodeObjectMapLoop(val, attrTypes, path, ord, names,
                                             i + 1, (k :> r.val) @@ vals,
                                             calls \o r.calls)

\* rivertags.Get(val.Type()): the tagged fields of a struct type.  Only the
\* program's own structs carry river tags.
rivertagsGet(n) == IF n.gotype = "user" THEN n.fields ELSE <<>>
\* attrFields.Get(k): whether a field is tagged k, and its index (from 0).
HasField(attrFields, k) == \E j \in 1..Len(attrFields) : attrFields[j].tag = k
FieldIndex(attrFields, k) ==
    (CHOOSE j \in 1..Len(attrFields) : attrFields[j].tag = k) - 1

\* The loop of encodeObject over a struct.
RECURSIVE encodeObjectStructLoop(_, _, _, _, _, _, _, _)
encodeObjectStructLoop(val, attrTypes, path, ord, names, i, vals, calls) ==
    IF i > Len(names)
      THEN [val |-> ObjectVal(vals), err |-> NoErr, calls |-> calls]
      ELSE LET k == names[i]
               at == attrTypes[k]
               attrFields == rivertagsGet(val.n)
           IN
           IF HasField(attrFields, k)
             THEN LET r == encode(FieldAt(val, FieldIndex(attrFields, k)), at,
                                  SetLast(path, GetAttrStep(k)), ord)
                  IN
                  IF Failed(r)
                    THEN [val |-> NilVal, err |-> r.err,
                          calls |-> calls \o r.calls]
                    ELSE encodeObjectStructLoop(val, attrTypes, path, ord, names,
                                                i + 1, (k :> r.val) @@ vals,
                                                calls \o r.calls)
             ELSE encodeObjectStructLoop(val, attrTypes, path, ord, names, i + 1,
                                         (k :> NullVal(at)) @@ vals, calls)

\* encodeObject taking a type without attributes for one without a value: the
\* typed null instead of the empty object.
encodeObjectEmptyAsNull(val, attrTypes, path, ord) ==
    LET v == unwrapPointer(val) IN
    IF ~IsValid(v) THEN Ret(NullVal(Object(attrTypes)))
    ELSE IF Kind(v) = "map"
      THEN IF IsNil(v) THEN Ret(NullVal(Object(attrTypes)))
           ELSE IF v.n.keykind # "string"
             THEN Fail(NewErrorf(path, "mapkey", <<>>))
           ELSE IF DOMAIN attrTypes = {} THEN Ret(NullVal(Object(attrTypes)))
           ELSE encodeObjectMapLoop(v, attrTypes, Grow(path), ord,
                                    InOrder(ord, DOMAIN attrTypes), 1,
                                    EmptyFcn, <<>>)
    ELSE IF Kind(v) = "struct"
      THEN IF DOMAIN attrTypes = {} THEN Ret(NullVal(Object(attrTypes)))
           ELSE encodeObjectStructLoop(v, attrTypes, Grow(path), ord,
                                       InOrder(ord, DOMAIN attrTypes), 1,
                                       EmptyFcn, <<>>)
    ELSE Fail(NewErrorf(path, "kind", <<>>))

encodeObject(val, attrTypes, path, ord) ==
    LET v == unwrapPointer(val) IN
    IF ~IsValid(v) THEN Ret(NullVal(Object(attrTypes)))
    ELSE IF Kind(v) = "map"
      THEN IF IsNil(v) THEN Ret(NullVal(Object(attrTypes)))
           ELSE IF v.n.keykind # "string"
             THEN Fail(NewErrorf(path, "mapkey", <<>>))
           ELSE IF DOMAIN attrTypes = {} THEN Ret(EmptyObjectVal)
           ELSE encodeObjectMapLoop(v, attrTypes, Grow(path), ord,
                                    InOrder(ord, DOMAIN attrTypes), 1,
                                    EmptyFcn, <<>>)
    ELSE IF Kind(v) = "struct"
      THEN IF DOMAIN attrTypes = {} THEN Ret(EmptyObjectVal)
           ELSE encodeObjectStructLoop(v, attrTypes, Grow(path), ord,
                                       InOrder(ord, DOMAIN attrTypes), 1,
                                       EmptyFcn, <<>>)
    ELSE Fail(NewErrorf(path, "kind", <<>>))

\* The loop of encodeTuple over the element types from index i on; struct
\* tells whether the native is a struct (val.Field) or a slice (val.Index).
RECURSIVE encodeTupleLoop(_, _, _, _, _, _, _, _)
encodeTupleLoop(val, elemTypes, path, ord, struct, i, vals, calls) ==
    IF i = Len(elemTypes)
      THEN [val |-> TupleVal(vals), err |-> NoErr, calls |-> calls]
      ELSE LET child == IF struct THEN FieldAt(val, i) ELSE Index(val, i)
               r == encode(child, elemTypes[i + 1],
                           SetLast(path, IndexStep(i)), ord)
           IN
           IF Failed(r)
             THEN [val |-> NilVal, err |-> r.err, calls |-> calls \o r.calls]
             ELSE encodeTupleLoop(val, elemTypes, path, ord, struct, i + 1,
                                  Append(vals, r.val), calls \o r.calls)

\* The fields of the library's structs (big.Int, set.Set, cty.Value) are not
\* modelled: a call that would count them ends outside the model.
Unmodelled(path) == Fail(NewErrorf(path, "unmodelled", <<>>))

encodeTuple(val, elemTypes, path, ord) ==
    LET v == unwrapPointer(val) IN
    IF ~IsValid(v) THEN Ret(NullVal(Tuple(elemTypes)))
    ELSE IF Kind(v) = "slice"
      THEN IF IsNil(v) THEN Ret(NullVal(Tuple(elemTypes)))
           ELSE IF SeqLen(v) # Len(elemTypes)
             THEN Fail(NewErrorf(path, "arity", <<SeqLen(v), Len(elemTypes)>>))
           ELSE IF Len(elemTypes) = 0 THEN Ret(EmptyTupleVal)
           ELSE encodeTupleLoop(v, elemTypes, Grow(path), ord, FALSE, 0,
                                <<>>, <<>>)
    ELSE IF Kind(v) = "struct"
      THEN IF v.n.gotype # "user" THEN Unmodelled(path)
           ELSE IF NumField(v) # Len(elemTypes)
             THEN Fail(NewErrorf(path, "arity", <<NumField(v), Len(elemTypes)>>))
           ELSE IF Len(elemTypes) = 0 THEN Ret(EmptyTupleVal)
           ELSE encodeTupleLoop(v, elemTypes, Grow(path), ord, TRUE, 0,
                                <<>>, <<>>)
    ELSE Fail(NewErrorf(path, "kind", <<>>))

\* encode with the passthrough test placed after the switch on the scalar
\* types instead of ahead of it.
HandlerScalarsFirst(val, ty) ==
    IF ty.c \in {"Bool", "Number", "String", "Dynamic"} THEN ty.c
    ELSE IF val # ZeroValue /\ IsCtyValue(val) THEN "Passthrough"
    ELSE ty.c

\* The handler encode picks: the passthrough first, then by target type.
Handler(val, ty) ==
    IF val # ZeroValue /\ IsCtyValue(val) THEN "Passthrough" ELSE ty.c

\* The handler h applied.
Dispatch(h, val, ty, path, ord) ==
    CASE h = "Passthrough" -> encodePassthruogh(val, ty, path)
      [] h = "Bool" -> encodeBool(val, path)
      [] h = "Number" -> encodeNumber(val, path)
      [] h = "String" -> encodeString(val, path)
      [] h = "Dynamic" -> encodeDynamic(val, path)
      [] h = "List" -> encodeList(val, ty.e, path, ord)
      [] h = "Map" -> encodeMap(val, ty.e, path, ord)
      [] h = "Set" -> encodeSet(val, ty.e, path, ord)
      [] h = "Object" -> encodeObject(val, ty.attrs, path, ord)
      [] h = "Tuple" -> encodeTuple(val, ty.elems, path, ord)
      [] h = "Capsule" -> encodeCapsule(val, ty, path)
      [] OTHER -> Fail(NewErrorf(path, "unsupported", <<>>))

\* The calls made below a call that ran handler h: each has that call among
\* the calls enclosing it.
Below(h, calls) ==
    [j \in DOMAIN calls |-> [calls[j] EXCEPT !.encl = <<h>> \o @]]

\* Each call is recorded, with the handler it ran, ahead of the calls made
\* below it; encl lists the handlers of the calls enclosing it, outermost
\* first.
encode(val, ty, path, ord) ==
    LET h == Handler(val, ty)
        r == Dispatch(h, val, ty, path, ord)
    IN [r EXCEPT !.calls =
            <<[val |-> val, ty |-> ty, path |-> path, h |-> h, encl |-> <<>>]>>
                \o Below(h, r.calls)]

Encode(native, ty, ord) == encode(ValueOf(native), ty, <<>>, ord)

(***************************************************************************)
(* The inputs that are drawn.  The elements of a Go slice, array or map    *)
(* share one static type, so sequences and maps are built over families    *)
(* of natives of one element type.                                         *)
(***************************************************************************)
RECURSIVE SeqsUpTo(_, _)
\* The sequences over S of length at most n.
SeqsUpTo(S, n) ==
    IF n = 0 THEN {<<>>}
    ELSE LET shorter == SeqsUpTo(S, n - 1) IN
         shorter \cup {Append(q, x) : q \in shorter, x \in S}

RECURSIVE Wrapped(_, _)
\* n below at most d levels of pointers and interfaces.
Wrapped(n, d) ==
    IF d = 0 THEN {n}
    ELSE LET inner == Wrapped(n, d - 1) IN
         inner \cup {PtrTo(x) : x \in inner} \cup {Iface(x) : x \in inner}

\* Element families: []string, []interface{}, []*string, []cty.Value and
\* [][]interface{}.
FamString == {GoString("a"), GoString("1")}
FamIface ==
    {NilIface, Iface(GoString("a")), Iface(GoInt(1)),
     Iface(CtyValue(StringVal("a")))}
FamPtr == {NilPtr, PtrTo(GoString("a"))}
FamCty ==
    {CtyValue(StringVal("a")), CtyValue(NumberVal(1)),
     CtyValue(NullVal(String))}
FamSlice ==
    {NilSlice, Slice(<<>>), Slice(<<Iface(GoString("a"))>>),
     Slice(<<Iface(GoInt(1))>>),
     Slice(<<Iface(GoString("a")), Iface(GoInt(1))>>)}
\* What a set container's Values() may hold: concrete values or nil.
FamSetValue ==
    {Invalid, GoString("a"), GoInt(1), CtyValue(StringVal("a"))}

Scalars ==
    {GoBool(TRUE), GoInt(1), GoUint(2), GoFloat(1), GoString("a"),
     BigInt(1), BigFloat(2)}
\* The already-typed values handed in as natives.
TypedValues ==
    {StringVal(x) : x \in Strs} \cup {NumberVal(1), BoolVal(TRUE)}
        \cup {NullVal(String), NullVal(Number), NullVal(DynamicPseudoType)}

NativeSeqs ==
    UNION {SeqsUpTo(F, MaxLen) : F \in {FamString, FamIface, FamPtr, FamCty, FamSlice}}
Slices == {NilSlice} \cup {Slice(q) : q \in NativeSeqs}
Arrays == {Array(q) : q \in SeqsUpTo(FamString, MaxLen) \cup SeqsUpTo(FamIface, MaxLen)}
SetContainers == {SetContainer(q) : q \in SeqsUpTo(FamSetValue, MaxLen)}

\* The maps over the keys a and b with values of one family.
MapsOver(keykind, F) ==
    {GoMap(keykind, e) : e \in UNION {[D -> F] : D \in SUBSET Keys}}
Maps ==
    {NilMap("string"), NilMap("int")}
        \cup MapsOver("string", FamIface) \cup MapsOver("string", FamCty)
        \cup MapsOver("string", {Slice(<<>>), Slice(<<Iface(GoInt(1))>>)})
        \cup MapsOver("int", {Iface(GoString("a"))})

Structs ==
    {Struct(<<>>)}
        \cup {Struct(<<Field("a", x), Field("b", y)>>) :
                x \in {GoString("a"), GoInt(1)}, y \in {GoInt(1), GoString("a")}}
        \cup {Struct(<<Field("a", x), Field("", GoInt(1))>>) :
                x \in {GoString("a"), Iface(GoInt(1)), NilPtr}}
        \cup {Struct(<<Field("c", GoString("a")), Field("b", NilSlice)>>)}

\* A top-level native is never of kind interface: reflect.ValueOf gives what
\* the interface holds, and the zero Value for nil.
Chains ==
    {PtrTo(x) :
        x \in UNION {Wrapped(t, MaxPtr - 1) :
                t \in {NilPtr, NilIface, GoString("a"), NilSlice,
                       Slice(<<GoString("a")>>), NilMap("string"),
                       GoMap("string", "a" :> Iface(GoString("a"))),
                       GoMap("int", EmptyFcn),
                       Struct(<<Field("a", GoString("a")), Field("b", GoInt(1))>>),
                       CtyValue(StringVal("a"))}}}

Natives ==
    {Invalid, NilPtr} \cup Scalars \cup {CtyValue(v) : v \in TypedValues}
        \cup Slices \cup Arrays \cup SetContainers \cup Maps \cup Structs
        \cup Chains

AB(ta, tb) == ("a" :> ta) @@ ("b" :> tb)
Types ==
    {Bool, Number, String, DynamicPseudoType,
     List(String), List(Number), List(List(String)),
     Map(String), Map(Number), Map(List(Number)),
     Set(String), Set(Number), Set(List(String)), List(Set(String)),
     Object(EmptyFcn), Object("a" :> String), Object(AB(String, Number)),
     Object(AB(DynamicPseudoType, List(String))),
     Tuple(<<>>), Tuple(<<String>>), Tuple(<<String, Number>>),
     Tuple(<<DynamicPseudoType, List(String)>>),
     Tuple(<<String, String, String>>),
     Capsule("string"), Capsule("user"), List(Capsule("string"))}

(***************************************************************************)
(* The specification: a caller holds a native value and a target type,     *)
(* calls Encode, and may hand the value it got back to Encode again or     *)
(* call Encode on the same input a second time.                            *)
(***************************************************************************)
VARIABLES native, ty, pc, result, again
\* The loop of unwrapPointer taken step by step: the value it holds and the
\* number of times it has dereferenced.
VARIABLES uval, steps

\* A token.File: its line table, and the last operation applied to it with
\* its argument and result.
VARIABLES lines, last

\* The metrics_scraper Component: its stored config, the inner receiver of
\* its lazyAppendable, the number of notifications in its newTargets channel
\* and the holder of its mutex; the context handed to Run; the goroutine in
\* Run and the caller in Update, each with its position and locals; the
\* scrape manager behind targetChan; and the number of Update calls made.
VARIABLES cfg, inner, newTargets, mut, ctxDone, run, upd, manager, updates

encoderVars == <<native, ty, pc, result, again>>
unwrapVars == <<uval, steps>>
fileVars == <<lines, last>>
scraperVars == <<cfg, inner, newTargets, mut, ctxDone, run, upd, manager, updates>>
vars == <<encoderVars, unwrapVars, fileVars, scraperVars>>

NoResult == [val |-> NilVal, err |-> NoErr, calls |-> <<>>]

\* No unwrapPointer loop is being followed.
UnwrapIdle == uval = ZeroValue /\ steps = 0
\* No Encode call is being followed.
EncoderIdle ==
    /\ native = Invalid
    /\ ty = Bool
    /\ pc = "idle"
    /\ result = NoResult
    /\ again = NoResult
\* No token.File is being followed.
FileIdle == lines = <<>> /\ last = [op |-> "none"]
\* No Component is being followed.
ScraperIdle ==
    /\ cfg = [id |-> 0, receiver |-> "nil"]
    /\ inner = "nil"
    /\ newTargets = 0
    /\ mut = "free"
    /\ ctxDone = FALSE
    /\ run = [pc |-> "none"]
    /\ upd = [pc |-> "none"]
    /\ manager = [state |-> "none"]
    /\ updates = 0

Init ==
    /\ native \in Natives
    /\ ty \in Types
    /\ pc = "call"
    /\ result = NoResult
    /\ again = NoResult
    /\ UnwrapIdle
    /\ FileIdle
    /\ ScraperIdle

\* Encode(native, ty)
CallEncode ==
    /\ pc = "call"
    /\ \E ord \in Orders :
          LET r == Encode(native, ty, ord) IN
          /\ r.err.cause # "unmodelled"
          /\ result' = r
    /\ pc' = "returned"
    /\ UNCHANGED <<native, ty, again>>
    /\ UNCHANGED <<unwrapVars, fileVars, scraperVars>>

\* Encode(v, ty) of the value v the first call returned.  Convert is
\* modelled for null and scalar values, so those are re-encoded.
ReEncode ==
    /\ pc = "returned"
    /\ ~Failed(result)
    /\ result.val.vk \in {"null", "bool", "num", "str"}
    /\ \E ord \in Orders : again' = Encode(CtyValue(result.val), ty, ord)
    /\ pc' = "reencoded"
    /\ UNCHANGED <<native, ty, result>>
    /\ UNCHANGED <<unwrapVars, fileVars, scraperVars>>

\* Encode(native, ty) once more, on the same input: the maps may be iterated
\* in another order than in the first call.
CallEncodeAgain ==
    /\ pc = "returned"
    /\ \E ord \in Orders : again' = Encode(native, ty, ord)
    /\ pc' = "repeated"
    /\ UNCHANGED <<native, ty, result>>
    /\ UNCHANGED <<unwrapVars, fileVars, scraperVars>>

Next == CallEncode \/ ReEncode \/ CallEncodeAgain

Spec == Init /\ [][Next]_vars

(***************************************************************************)
(* unwrapPointer step by step: each pass of its for loop is an action.     *)
(* The value is the one Encode is given or one a handler passes down, an   *)
(* element of a []interface{} for instance.                                *)
(***************************************************************************)
InitUnwrap ==
    /\ native \in Natives \cup FamIface
    /\ ty = String
    /\ pc = "unwrap"
    /\ result = NoResult
    /\ again = NoResult
    /\ uval = ValueOf(native)
    /\ steps = 0
    /\ FileIdle
    /\ ScraperIdle

\* The loop ending at a nil pointer or interface by returning it as it is.
UnwrapNilAsValue ==
    /\ pc = "unwrap"
    /\ Kind(uval) \in {"ptr", "iface"}
    /\ IsNil(uval)
    /\ pc' = "unwrapped"
    /\ UNCHANGED <<native, ty, result, again, uval, steps>>
    /\ UNCHANGED <<fileVars, scraperVars>>

\* The loop's test holds and the value is nil: return reflect.Value{}.
UnwrapNil ==
    /\ pc = "unwrap"
    /\ Kind(uval) \in {"ptr", "iface"}
    /\ IsNil(uval)
    /\ uval' = ZeroValue
    /\ pc' = "unwrapped"
    /\ UNCHANGED <<native, ty, result, again, steps>>
    /\ UNCHANGED <<fileVars, scraperVars>>

\* The loop's test holds and the value is not nil: val = val.Elem().
UnwrapDeref ==
    /\ pc = "unwrap"
    /\ Kind(uval) \in {"ptr", "iface"}
    /\ ~IsNil(uval)
    /\ uval' = Elem(uval)
    /\ steps' = steps + 1
    /\ UNCHANGED <<native, ty, pc, result, again>>
    /\ UNCHANGED <<fileVars, scraperVars>>

\* The loop's test fails: return val.
UnwrapReturn ==
    /\ pc = "unwrap"
    /\ Kind(uval) \notin {"ptr", "iface"}
    /\ pc' = "unwrapped"
    /\ UNCHANGED <<native, ty, result, again, uval, steps>>
    /\ UNCHANGED <<fileVars, scraperVars>>

NextUnwrap == UnwrapNil \/ UnwrapDeref \/ UnwrapReturn

SpecUnwrap == InitUnwrap /\ [][NextUnwrap]_vars

(***************************************************************************)
(* Package token: a File and its line table.  Go's int is modelled with    *)
(* IntBits bits, two's complement, so that its arithmetic wraps as Go's    *)
(* does.                                                                   *)
(***************************************************************************)
\* The width of int in the model.
IntBits == 4
\* The most lines that are added to a file.
MaxLines == 3

MinInt == -(2 ^ (IntBits - 1))
MaxInt == 2 ^ (IntBits - 1) - 1
GoInts == MinInt..MaxInt
\* The int that Go's arithmetic gives for the mathematical result x.
Wrap(x) == ((x - MinInt) % (2 ^ IntBits)) + MinInt

\* Pos{}, and the Pos that File.Pos(off) returns for the file of the model.
NoPos == [file |-> "nil", off |-> 0]
Pos(off) == [file |-> "f", off |-> off]
\* Position{}, and the Position PositionFor builds.
ZeroPosition == [Offset |-> 0, Line |-> 0, Column |-> 0]
Position(offset, line, column) ==
    [Offset |-> offset, Line |-> line, Column |-> column]
\* Position.IsValid
PositionIsValid(pos) == pos.Line >= 1

RECURSIVE Search(_, _, _, _)
\* sort.Search(n, f) with f(h) = a[h] > x: the binary search between i and
\* j (indices from 0).
Search(a, x, i, j) ==
    IF i >= j THEN i
    ELSE LET h == (i + j) \div 2 IN
         IF ~(a[h + 1] > x) THEN Search(a, x, h + 1, j)
         ELSE Search(a, x, i, h)

searchInts(a, x) == Search(a, x, 0, Len(a)) - 1

\* File.PositionFor(p) on the line table a.
PositionFor(a, p) ==
    IF p = NoPos THEN ZeroPosition
    ELSE LET i == searchInts(a, p.off) IN
         IF i >= 0
           THEN Position(p.off, i + 1, Wrap(Wrap(p.off - a[i + 1]) + 1))
           ELSE Position(p.off, 0, 0)

\* NewFile(filename)
InitFile ==
    /\ EncoderIdle
    /\ UnwrapIdle
    /\ lines = <<0>>
    /\ last = [op |-> "NewFile"]
    /\ ScraperIdle

\* AddLine taking an offset equal to the last one as a new line.
AddLineNotSmaller ==
    \E offset \in GoInts :
        /\ Len(lines) = 0 \/ lines[Len(lines)] <= offset => Len(lines) <= MaxLines
        /\ lines' = IF Len(lines) = 0 \/ lines[Len(lines)] <= offset
                      THEN Append(lines, offset)
                      ELSE lines
        /\ last' = [op |-> "AddLine", offset |-> offset]
        /\ UNCHANGED <<encoderVars, unwrapVars, scraperVars>>

\* f.AddLine(offset), for any int.
AddLine ==
    \E offset \in GoInts :
        /\ Len(lines) = 0 \/ lines[Len(lines)] < offset => Len(lines) <= MaxLines
        /\ lines' = IF Len(lines) = 0 \/ lines[Len(lines)] < offset
                      THEN Append(lines, offset)
                      ELSE lines
        /\ last' = [op |-> "AddLine", offset |-> offset]
        /\ UNCHANGED <<encoderVars, unwrapVars, scraperVars>>

\* f.PositionFor(f.Pos(off)): File.Pos panics unless off >= 0.
CallPositionFor ==
    \E off \in 0..MaxInt :
        /\ last' = [op |-> "PositionFor", p |-> Pos(off),
                    position |-> PositionFor(lines, Pos(off))]
        /\ UNCHANGED <<lines, encoderVars, unwrapVars, scraperVars>>

\* f.PositionFor(NoPos)
CallPositionForNoPos ==
    /\ last' = [op |-> "PositionFor", p |-> NoPos,
                position |-> PositionFor(lines, NoPos)]
    /\ UNCHANGED <<lines, encoderVars, unwrapVars, scraperVars>>

NextFile == AddLine \/ CallPositionFor \/ CallPositionForNoPos

SpecFile == InitFile /\ [][NextFile]_vars

(***************************************************************************)
(* The metrics_scraper Component.  One goroutine is in Run, one caller at  *)
(* a time is in Update; each statement that touches shared state is an     *)
(* action.  The k-th Update call passes a Config of its own, k, so that     *)
(* the targets handed to the scrape manager tell which config they are of. *)
(***************************************************************************)
\* The most Update calls made after NewComponent.
MaxUpdates == 3

\* The receivers a Config names: none, or one of two.
Receivers == {"nil", "r1", "r2"}
Config(id, receiver) == [id |-> id, receiver |-> receiver]
\* c.cfg.Targets of a config: the target groups of that config.
Targets(c) == [groups |-> c.id]
\* convertTargets: the groups, converted, under the component's id.
convertTargets(targets) == [job |-> "id", promGroups |-> targets.groups]

\* What the scrape manager holds before it has received anything.
NoTargets == [job |-> "none", promGroups |-> -1]

\* NewComponent(o, c) returned a component: its Update(c) succeeded.
InitScraper ==
    /\ EncoderIdle
    /\ UnwrapIdle
    /\ FileIdle
    /\ \E r \in Receivers :
          /\ cfg = Config(0, r)
          /\ inner = r
    /\ newTargets = 1
    /\ mut = "free"
    /\ ctxDone = FALSE
    /\ run = [pc |-> "start", targets |-> Targets(Config(0, "nil")),
              woke |-> "none", ret |-> "none"]
    /\ upd = [pc |-> "idle", cfg |-> Config(0, "nil"), notified |-> "none",
              ret |-> "none"]
    /\ manager = [state |-> "notstarted", got |-> NoTargets]
    /\ updates = 0

\* What no action of the component writes, for each group of actions.
RunLeaves == UNCHANGED <<encoderVars, unwrapVars, fileVars, cfg, inner, ctxDone, upd, updates>>
UpdateLeaves == UNCHANGED <<encoderVars, unwrapVars, fileVars, ctxDone, run, manager>>

\* Run: targetChan is made and the goroutine of c.scraper.Run started.
RunStart ==
    /\ run.pc = "start"
    /\ run' = [run EXCEPT !.pc = "select"]
    /\ manager' = [manager EXCEPT !.state = "receiving"]
    /\ UNCHANGED <<newTargets, mut>>
    /\ RunLeaves

\* The outer select takes <-ctx.Done(): return nil, after the deferred Stop.
RunSelectDone ==
    /\ run.pc = "select"
    /\ ctxDone
    /\ run' = [run EXCEPT !.pc = "stop"]
    /\ UNCHANGED <<newTargets, mut, manager>>
    /\ RunLeaves

\* The outer select takes <-c.newTargets.
RunSelectNewTargets ==
    /\ run.pc = "select"
    /\ newTargets > 0
    /\ newTargets' = newTargets - 1
    /\ run' = [run EXCEPT !.pc = "rlock"]
    /\ UNCHANGED <<mut, manager>>
    /\ RunLeaves

\* c.mut.RLock()
RunRLock ==
    /\ run.pc = "rlock"
    /\ mut = "free"
    /\ mut' = "reader"
    /\ run' = [run EXCEPT !.pc = "read"]
    /\ UNCHANGED <<newTargets, manager>>
    /\ RunLeaves

\* targets := c.cfg.Targets; c.mut.RUnlock()
RunReadTargets ==
    /\ run.pc = "read"
    /\ mut' = "free"
    /\ run' = [run EXCEPT !.pc = "send", !.targets = Targets(cfg)]
    /\ UNCHANGED <<newTargets, manager>>
    /\ RunLeaves

\* The inner select takes targetChan <- promTargets: the scrape manager
\* receives.
RunSendTargets ==
    /\ run.pc = "send"
    /\ manager.state = "receiving"
    /\ manager' = [manager EXCEPT !.got = convertTargets(run.targets)]
    /\ run' = [run EXCEPT !.pc = "select", !.woke = "sent"]
    /\ UNCHANGED <<newTargets, mut>>
    /\ RunLeaves

\* The inner select, woken by ctx.Done, going back to read the targets and
\* send them again instead of to the outer select.
RunSendDoneRetry ==
    /\ run.pc = "send"
    /\ ctxDone
    /\ run' = [run EXCEPT !.pc = "rlock", !.woke = "ctx"]
    /\ UNCHANGED <<newTargets, mut, manager>>
    /\ RunLeaves

\* The inner select takes <-ctx.Done().
RunSendDone ==
    /\ run.pc = "send"
    /\ ctxDone
    /\ run' = [run EXCEPT !.pc = "select", !.woke = "ctx"]
    /\ UNCHANGED <<newTargets, mut, manager>>
    /\ RunLeaves

\* The deferred c.scraper.Stop(), and Run returns nil.
RunReturn ==
    /\ run.pc = "stop"
    /\ manager' = [manager EXCEPT !.state = "stopped"]
    /\ run' = [run EXCEPT !.pc = "returned", !.ret = "nil"]
    /\ UNCHANGED <<newTargets, mut>>
    /\ RunLeaves

RunNext ==
    \/ RunStart
    \/ RunSelectDone
    \/ RunSelectNewTargets
    \/ RunRLock
    \/ RunReadTargets
    \/ RunSendTargets
    \/ RunSendDone
    \/ RunReturn

\* The context handed to Run is cancelled.
Cancel ==
    /\ ~ctxDone
    /\ ctxDone' = TRUE
    /\ UNCHANGED <<encoderVars, unwrapVars, fileVars>>
    /\ UNCHANGED <<cfg, inner, newTargets, mut, run, upd, manager, updates>>

\* c.scraper.Run returns on its own (Run's goroutine logs its error): the
\* scrape manager no longer receives from targetChan.
ScraperRunReturns ==
    /\ manager.state = "receiving"
    /\ manager' = [manager EXCEPT !.state = "stopped"]
    /\ UNCHANGED <<encoderVars, unwrapVars, fileVars>>
    /\ UNCHANGED <<cfg, inner, newTargets, mut, ctxDone, run, upd, updates>>

\* Update(newConfig) is called.
UpdateCall ==
    /\ upd.pc = "idle"
    /\ updates < MaxUpdates
    /\ updates' = updates + 1
    /\ \E r \in Receivers :
          upd' = [pc |-> "lock", cfg |-> Config(updates + 1, r),
                  notified |-> "none", ret |-> "none"]
    /\ UNCHANGED <<cfg, inner, newTargets, mut>>
    /\ UpdateLeaves

\* c.mut.Lock()
UpdateLock ==
    /\ upd.pc = "lock"
    /\ mut = "free"
    /\ mut' = "writer"
    /\ upd' = [upd EXCEPT !.pc = "apply"]
    /\ UNCHANGED <<cfg, inner, newTargets, updates>>
    /\ UpdateLeaves

\* c.scraper.ApplyConfig returns nil.
UpdateApply ==
    /\ upd.pc = "apply"
    /\ upd' = [upd EXCEPT !.pc = "set"]
    /\ UNCHANGED <<cfg, inner, newTargets, mut, updates>>
    /\ UpdateLeaves

\* Update storing the config before it looks at ApplyConfig's error.
UpdateApplyFailsStoring ==
    /\ upd.pc = "apply"
    /\ mut' = "free"
    /\ cfg' = upd.cfg
    /\ upd' = [upd EXCEPT !.pc = "idle", !.ret = "error"]
    /\ UNCHANGED <<inner, newTargets, updates>>
    /\ UpdateLeaves

\* c.scraper.ApplyConfig returns an error: Update returns it, wrapped, and
\* the deferred Unlock runs.
UpdateApplyFails ==
    /\ upd.pc = "apply"
    /\ mut' = "free"
    /\ upd' = [upd EXCEPT !.pc = "idle", !.ret = "error"]
    /\ UNCHANGED <<cfg, inner, newTargets, updates>>
    /\ UpdateLeaves

\* if cfg.Receiver != nil { c.app.Set(cfg.Receiver) }
UpdateSetReceiver ==
    /\ upd.pc = "set"
    /\ inner' = IF upd.cfg.receiver # "nil" THEN upd.cfg.receiver ELSE inner
    /\ upd' = [upd EXCEPT !.pc = "store"]
    /\ UNCHANGED <<cfg, newTargets, mut, updates>>
    /\ UpdateLeaves

\* c.cfg = cfg
UpdateStore ==
    /\ upd.pc = "store"
    /\ cfg' = upd.cfg
    /\ upd' = [upd EXCEPT !.pc = "notify"]
    /\ UNCHANGED <<inner, newTargets, mut, updates>>
    /\ UpdateLeaves

\* Update notifying only while Run has not taken the previous notification:
\* it sends nothing into an empty channel.
UpdateNotifyNothing ==
    /\ upd.pc = "notify"
    /\ upd' = [upd EXCEPT !.pc = "unlock", !.notified = "default"]
    /\ UNCHANGED <<cfg, inner, newTargets, mut, updates>>
    /\ UpdateLeaves

\* select { case c.newTargets <- struct{}{}: default: }: the channel holds
\* one notification at most.
UpdateNotify ==
    /\ upd.pc = "notify"
    /\ IF newTargets < 1
         THEN /\ newTargets' = newTargets + 1
              /\ upd' = [upd EXCEPT !.pc = "unlock", !.notified = "sent"]
         ELSE /\ newTargets' = newTargets
              /\ upd' = [upd EXCEPT !.pc = "unlock", !.notified = "default"]
    /\ UNCHANGED <<cfg, inner, mut, updates>>
    /\ UpdateLeaves

\* return nil, and the deferred Unlock runs.
UpdateReturn ==
    /\ upd.pc = "unlock"
    /\ mut' = "free"
    /\ upd' = [upd EXCEPT !.pc = "idle", !.ret = "nil"]
    /\ UNCHANGED <<cfg, inner, newTargets, updates>>
    /\ UpdateLeaves

\* The steps of an Update call that has been made.
UpdateNext ==
    \/ UpdateLock
    \/ UpdateApply
    \/ UpdateApplyFails
    \/ UpdateSetReceiver
    \/ UpdateStore
    \/ UpdateNotify
    \/ UpdateReturn

NextScraper == RunNext \/ UpdateNext \/ UpdateCall \/ Cancel \/ ScraperRunReturns

SpecScraper == InitScraper /\ [][NextScraper]_vars

\* The goroutine in Run and a caller inside Update keep running; the
\* external calls (ApplyConfig, Stop) return.  Nothing obliges a caller to
\* call Update, the context to be cancelled or the scrape manager to stop.
SpecScraperLive == SpecScraper /\ WF_vars(RunNext) /\ WF_vars(UpdateNext)

(***************************************************************************)
(* Properties.                                                             *)
(***************************************************************************)
Returned == pc \in {"returned", "reencoded", "repeated"}

RECURSIVE EndsInNil(_)
\* nil, or a chain of pointers and interfaces that ends in a nil one.
EndsInNil(n) ==
    \/ n.k = "invalid"
    \/ n.k \in {"ptr", "iface"} /\ (n.nil \/ EndsInNil(n.elem))

RECURSIVE Depth(_)
\* The number of pointers and interfaces around a native.
Depth(n) == IF n.k \in {"ptr", "iface"} /\ ~n.nil THEN 1 + Depth(n.elem) ELSE 0

RECURSIVE Base(_)
\* What a native is below its pointers and interfaces; Invalid when one of
\* them is nil.
Base(n) ==
    IF n.k \in {"ptr", "iface"}
      THEN IF n.nil THEN Invalid ELSE Base(n.elem)
      ELSE n

IsTyped(n) == n.k = "struct" /\ n.gotype = "cty.Value"

\* C1 (null propagation): for every target type, Encode of nil or of a chain
\* of pointers/interfaces of any depth that ends in nil returns the typed
\* null of the target type and no error.
C1_NullPropagation ==
    (Returned /\ EndsInNil(native))
        => (result.val = NullVal(ty) /\ result.err = NoErr
            /\ Len(result.calls) = 1)

\* A pointer to a pointer to a nil interface, encoded against a tuple type
\* whose arity is never looked at.
C1_Witness ==
    /\ Returned
    /\ EndsInNil(native)
    /\ Depth(native) >= 2
    /\ ty = Tuple(<<String, Number>>)
    /\ result.val = NullVal(ty)

\* C2 (map key kind rejection), as claimed: every mapping whose key kind is
\* not string fails with the non-string-key error against a Map and against
\* an Object target.  Stated for the non-nil mappings, so that a violation
\* does not rest on the null propagation of a nil map.
C2_MapKeyRejection ==
    (Returned /\ native.k = "map" /\ ~native.nil /\ native.keykind # "string"
        /\ ty.c \in {"Map", "Object"})
        => (result.err.cause = "mapkey" /\ result.val = NilVal)

\* C3 (tuple arity strictness), as claimed: a sequence the list handler
\* accepts, of length k, against a tuple type of m element types fails with
\* the arity error (k and m in it, at the tuple's own path, before any
\* element is encoded) exactly if k # m.  Stated for the non-nil sequences.
C3_TupleArity ==
    (Returned /\ ty.c = "Tuple"
        /\ (native.k = "array" \/ (native.k = "slice" /\ ~native.nil)))
        => LET k == Len(native.elems)
               m == Len(ty.elems)
           IN (k # m) <=> (/\ result.err = NewErrorf(<<>>, "arity", <<k, m>>)
                           /\ Len(result.calls) = 1)

\* C4 as claimed: against an Object type without attributes every native
\* encodes to the empty object.
C4_Original ==
    (Returned /\ ty = Object(EmptyFcn))
        => (result.val = EmptyObjectVal /\ result.err = NoErr)

\* C4 (zero-attribute object), amended: against an Object type without
\* attributes, a native that is not itself an already-typed value and that
\* is, below its pointers and interfaces, a non-nil string-keyed mapping or
\* a struct encodes to the empty object, whatever it holds, and none of its
\* content is encoded.  nil and the nil mapping give the typed null, a
\* mapping with another key kind and every other kind give an error.
C4_ZeroAttrObject ==
    (Returned /\ ty = Object(EmptyFcn) /\ ~IsTyped(native))
        => LET b == Base(native) IN
           /\ Len(result.calls) = 1
           /\ IF b.k = "invalid" \/ (b.k = "map" /\ b.nil)
                THEN result.val = NullVal(ty) /\ result.err = NoErr
              ELSE IF b.k = "map" /\ b.keykind # "string"
                THEN result.val = NilVal /\ result.err.cause = "mapkey"
              ELSE IF b.k \in {"map", "struct"}
                THEN result.val = EmptyObjectVal /\ result.err = NoErr
              ELSE result.val = NilVal /\ result.err.cause = "kind"

\* A map with two entries behind a pointer, encoded to the empty object.
C4_Witness ==
    /\ Returned
    /\ ty = Object(EmptyFcn)
    /\ native.k = "ptr"
    /\ Base(native).k = "map"
    /\ Base(native).entries # EmptyFcn
    /\ result.val = EmptyObjectVal

C6_PassthroughIdempotent ==
    IsTyped(native) =>
        LET conv == Convert(native.v, ty) IN
        /\ Returned =>
              IF conv.ok THEN result.val = conv.val /\ result.err = NoErr
              ELSE result.val = NilVal /\ result.err.cause = "passthrough"
        /\ pc = "reencoded" =>
              (conv.ok /\ again.val = result.val /\ again.err = NoErr)

\* The string "1", converted to the number 1, encoded again.
C6_Witness ==
    /\ pc = "reencoded"
    /\ native = CtyValue(StringVal("1"))
    /\ ty = Number
    /\ result.val = NumberVal(1)
    /\ again.val = NumberVal(1)

\* A non-nil native sequence at the top level.
IsSequence(n) == n.k = "array" \/ (n.k = "slice" /\ ~n.nil)
\* Element i (from 0) of the native, encoded on its own against ety.
ElemAlone(i, ety, ord) == encode(Index(ValueOf(native), i), ety, <<>>, ord)
\* The indices of the elements that fail to encode against ety.
FailingElems(ety, ord) ==
    {i \in 0..(Len(native.elems) - 1) : Failed(ElemAlone(i, ety, ord))}
Min(S) == CHOOSE x \in S : \A y \in S : x <= y

\* What C7 says of a list whose elements all encode: as many elements, each
\* the encoding of its native element, in the same order.
ListInOrder(ord) ==
    /\ result.err = NoErr
    /\ result.val.vk = "list"
    /\ Len(result.val.elems) = Len(native.elems)
    /\ \A i \in 0..(Len(native.elems) - 1) :
          result.val.elems[i + 1] = ElemAlone(i, ty.e, ord).val

C8_EmptyVsNull ==
    Returned =>
        LET seq == native.k \in {"slice", "array"} /\ ty.c \in {"List", "Set"}
            map == native.k = "map" /\ ty.c = "Map"
            empty == CASE ty.c = "List" -> ListValEmpty(ty.e)
                       [] ty.c = "Map" -> MapValEmpty(ty.e)
                       [] ty.c = "Set" -> SetValEmpty(ty.e)
        IN
        /\ (seq /\ native.k = "slice" /\ native.nil) \/ (map /\ native.nil)
              => (result.val = NullVal(ty) /\ result.err = NoErr)
        /\ (seq /\ IsSequence(native) /\ native.elems = <<>>)
                \/ (map /\ ~native.nil /\ native.entries = EmptyFcn)
              => /\ result.val = empty
                 /\ result.err = NoErr
                 /\ result.val # NullVal(ty)
                 /\ TypeOf(result.val) = ty

C8_Witness ==
    /\ Returned
    /\ native = GoMap("string", EmptyFcn)
    /\ ty = Map(String)
    /\ result.val = MapValEmpty(String)
    /\ result.val.vk # "null"

\* The native below its pointers and interfaces, as the object handler
\* sees it.
Under == unwrapPointer(ValueOf(native))
\* A non-nil string-keyed mapping or a struct, not itself a typed value.
IsObjectSource ==
    /\ ~IsTyped(native)
    /\ \/ Under.n.k = "map" /\ ~Under.n.nil /\ Under.n.keykind = "string"
       \/ Under.n.k = "struct"
\* Whether the native has attribute k: as a key, or as a field tagged k.
Present(k) ==
    IF Under.n.k = "map" THEN k \in DOMAIN Under.n.entries
    ELSE /\ Under.n.gotype = "user"
         /\ \E j \in DOMAIN Under.n.fields : Under.n.fields[j].tag = k
ChildOf(k) ==
    IF Under.n.k = "map" THEN MapIndex(Under, k)
    ELSE FieldAt(Under,
                 (CHOOSE j \in DOMAIN Under.n.fields :
                      Under.n.fields[j].tag = k) - 1)
\* The native value of attribute k, encoded on its own against k's type.
AttrAlone(k, ord) == encode(ChildOf(k), ty.attrs[k], <<>>, ord)

\* C9 (object attribute independence): against an Object type with declared
\* attributes, a non-nil string-keyed mapping or a struct gives an object
\* with exactly the declared attributes: the typed null for each one the
\* native does not have, the encoding of its native value for each one it
\* has, nothing for what the native has beyond them; the call fails only
\* with the error of an attribute the native has.
C9_ObjectAttributes ==
    (Returned /\ ty.c = "Object" /\ DOMAIN ty.attrs # {} /\ IsObjectSource) =>
        \E ord \in Orders :
            LET failing == {k \in DOMAIN ty.attrs :
                               Present(k) /\ Failed(AttrAlone(k, ord))}
            IN
            IF failing = {}
              THEN /\ result.err = NoErr
                   /\ result.val.vk = "object"
                   /\ DOMAIN result.val.attrs = DOMAIN ty.attrs
                   /\ \A k \in DOMAIN ty.attrs :
                         result.val.attrs[k] =
                             IF Present(k) THEN AttrAlone(k, ord).val
                             ELSE NullVal(ty.attrs[k])
              ELSE /\ result.val = NilVal
                   /\ \E k \in failing :
                         LET e == AttrAlone(k, ord).err IN
                         /\ result.err.cause = e.cause
                         /\ result.err.info = e.info
                         /\ result.err.path = <<GetAttrStep(k)>> \o e.path

\* The spec's scenario: {a: String, b: Number} from a mapping with a only.
C9_Witness ==
    /\ Returned
    /\ native = GoMap("string", "a" :> Iface(GoString("a")))
    /\ ty = Object(AB(String, Number))
    /\ result.val = ObjectVal(AB(StringVal("a"), NullVal(Number)))

\* C10 (first error aborts): when Encode returns an error the value is the
\* nil value, and the last encode call made is the one that raised the
\* error: it raised it itself, at its own path, before encoding any child,
\* and nothing was encoded after it.
C10_FirstErrorAborts ==
    (Returned /\ Failed(result)) =>
        /\ result.val = NilVal
        /\ LET c == result.calls[Len(result.calls)] IN
           /\ c.path = result.err.path
           /\ \E ord \in Orders :
                 LET d == Dispatch(c.h, c.val, c.ty, c.path, ord) IN
                 d.err = result.err /\ d.calls = <<>>

\* The first of two elements fails: the second is never encoded.
C10_Witness ==
    /\ Returned
    /\ Failed(result)
    /\ native.k = "slice"
    /\ Len(native.elems) = 2
    /\ ty = List(String)
    /\ result.err.path = <<IndexStep(0)>>
    /\ Len(result.calls) = 2
    /\ result.val = NilVal

\* A non-nil string-keyed mapping at the top level.
IsStringMap(n) == n.k = "map" /\ ~n.nil /\ n.keykind = "string"
\* The value under key k of the native, encoded on its own against ety.
KeyAlone(k, ety, ord) == encode(MapIndex(ValueOf(native), k), ety, <<>>, ord)
\* The keys whose values fail to encode against ety.
FailingKeys(ety, ord) ==
    {k \in DOMAIN native.entries : Failed(KeyAlone(k, ety, ord))}
\* The error r is the error of key k's value, below the index step of k.
IsErrorOfKey(r, k, ety, ord) ==
    LET e == KeyAlone(k, ety, ord).err IN
    /\ Failed(KeyAlone(k, ety, ord))
    /\ r.val = NilVal
    /\ r.err.cause = e.cause
    /\ r.err.info = e.info
    /\ r.err.path = <<KeyStep(k)>> \o e.path

\* C11 as claimed: two runs of the map handler over the same non-nil
\* string-keyed mapping, whatever the orders in which they iterate the keys,
\* have the same outcome (value and error), and a failure carries the index
\* step of the key whose value failed to encode.
C11_Original ==
    (pc = "repeated" /\ ty.c = "Map" /\ IsStringMap(native)) =>
        /\ again.val = result.val
        /\ again.err = result.err
        /\ Failed(result) =>
              \E ord \in Orders, k \in DOMAIN native.entries :
                  IsErrorOfKey(result, k, ty.e, ord)

\* C11 (map iteration-order independence), amended: whether the call fails
\* does not depend on the order of the keys, nor does the map it returns,
\* which holds under every key the encoding of that key's value; a failure
\* is the error of one key whose value fails to encode, below that key's
\* index step, and it is the same in every order when only one key's value
\* fails.  With several failing values the order decides which is reported.
C11_MapOrder ==
    (pc = "repeated" /\ ty.c = "Map" /\ IsStringMap(native)) =>
        \E ord \in Orders :
            LET failing == FailingKeys(ty.e, ord) IN
            /\ Failed(result) <=> failing # {}
            /\ Failed(again) <=> failing # {}
            /\ failing = {} /\ native.entries # EmptyFcn =>
                  /\ again.val = result.val
                  /\ result.val.vk = "map"
                  /\ DOMAIN result.val.entries = DOMAIN native.entries
                  /\ \A k \in DOMAIN native.entries :
                        result.val.entries[k] = KeyAlone(k, ty.e, ord).val
            /\ failing # {} =>
                  /\ \E k \in failing : IsErrorOfKey(result, k, ty.e, ord)
                  /\ \E k \in failing : IsErrorOfKey(again, k, ty.e, ord)
                  /\ Cardinality(failing) = 1 => again.err = result.err

\* Two runs that took the two keys in opposite orders and returned the same
\* map.
C11_Witness ==
    /\ pc = "repeated"
    /\ ty = Map(String)
    /\ IsStringMap(native)
    /\ Cardinality(DOMAIN native.entries) = 2
    /\ ~Failed(result)
    /\ result.calls[2].path # again.calls[2].path
    /\ again.val = result.val


\* The handlers that put a step on the path for the values they encode.
Pushing == {"List", "Map", "Object", "Tuple"}
\* The step that handler h puts on the path for a value it encodes.
StepFits(h, step) ==
    CASE h \in {"List", "Tuple"} -> DOMAIN step = {"idx"} /\ step.idx \in Nat
      [] h = "Map" -> DOMAIN step = {"key"}
      [] h = "Object" -> DOMAIN step = {"attr"}
      [] OTHER -> FALSE
\* The path of call c has one step for each List, Map, Object or Tuple level
\* that encloses c, of that level's kind, in the order of the levels.
PathTracksLevels(c) ==
    LET levels == SelectSeq(c.encl, LAMBDA h : h \in Pushing) IN
    /\ Len(c.path) = Len(levels)
    /\ \A k \in DOMAIN c.path : StepFits(levels[k], c.path[k])

\* C12 (path tracking): in every encode call made during an Encode call the
\* path has exactly one step per enclosing List/Map/Object/Tuple level (index
\* step for a position or a map key, attribute step for an attribute), the
\* root call has the empty path, and a returned error has the path of the
\* call that failed, which is the last call made: nothing is encoded after
\* it that could alter the path.
C12_PathTracking ==
    Returned =>
        /\ result.calls[1].path = <<>>
        /\ result.calls[1].encl = <<>>
        /\ \A i \in DOMAIN result.calls : PathTracksLevels(result.calls[i])
        /\ Failed(result) =>
              result.err.path = result.calls[Len(result.calls)].path

\* A list inside a set fails at its second element: the set level has put
\* no step on the path, the list level one.
C12_Witness ==
    /\ Returned
    /\ Failed(result)
    /\ ty = Set(List(String))
    /\ result.calls[Len(result.calls)].encl = <<"Set", "List">>
    /\ result.err.path = <<IndexStep(1)>>

\* The elements the set handler encodes: those of a sequence, or the values
\* of a set container (in the order its Values() lists them).
SetElems ==
    IF Under.n.k = "struct"
      THEN [i \in DOMAIN Under.n.vals |-> ValueOf(Under.n.vals[i])]
      ELSE [i \in DOMAIN Under.n.elems |-> Index(Under, i - 1)]
\* Element i, encoded on its own against the element type at the set's path.
SetElemAlone(i, ord) == encode(SetElems[i], ty.e, <<>>, ord)
\* In the log of calls, every call made by a set handler has the path of
\* that set handler's own call.
SetPushesNoStep(calls) ==
    \A j \in DOMAIN calls :
        LET d == calls[j] IN
        (d.encl # <<>> /\ d.encl[Len(d.encl)] = "Set") =>
            \E i \in 1..(j - 1) :
                /\ calls[i].h = "Set"
                /\ calls[i].encl = SubSeq(d.encl, 1, Len(d.encl) - 1)
                /\ calls[i].path = d.path
                /\ d.ty = calls[i].ty.e

RECURSIVE Addressable(_)
\* Whether what lies below the pointers and interfaces of a top-level native
\* was reached through a pointer: the innermost of them is a pointer.
Addressable(n) ==
    /\ n.k \in {"ptr", "iface"}
    /\ ~n.nil
    /\ IF n.elem.k \in {"ptr", "iface"} THEN Addressable(n.elem)
       ELSE n.k = "ptr"

\* What the capsule handler gives for a non-nil value whose base is b,
\* addressable or not, at the given path.
CapsuleOutcome(r, b, addressable, cty, path) ==
    IF ~addressable
      THEN /\ r.val = NilVal
           /\ r.err = NewErrorf(path, "capsule_addr", <<cty>>)
    ELSE IF GoTypeOf(b) # cty.enc
      THEN /\ r.val = NilVal
           /\ r.err = NewErrorf(path, "capsule_type", <<"*" \o GoTypeOf(b), cty>>)
    ELSE /\ r.err = NoErr
         /\ r.val = CapsuleVal(cty, PtrTo(b))

\* C14 (capsule handler): against a Capsule target a non-nil native that is
\* not an already-typed value fails with the not-addressable error when the
\* value below its pointers and interfaces is not addressable (it is never a
\* pointer itself), fails with the type-mismatch error naming the value's
\* pointer type and the capsule type when the value's type is not the
\* encapsulated type, and otherwise gives a capsule value holding a pointer
\* to the value.  The elements of a slice are addressable, those of an array
\* handed in by value are not.
C14_CapsuleHandler ==
    /\ (Returned /\ ty.c = "Capsule" /\ ~IsTyped(native) /\ ~EndsInNil(native)) =>
          /\ CapsuleOutcome(result, Base(native), Addressable(native), ty, <<>>)
          /\ Len(result.calls) = 1
    /\ (Returned /\ ty = List(Capsule("string")) /\ IsSequence(native)
            /\ native.elems # <<>> /\ native.elems[1].k = "string") =>
          IF native.k = "array"
            THEN CapsuleOutcome(result, native.elems[1], FALSE, ty.e,
                                <<IndexStep(0)>>)
            ELSE /\ result.err = NoErr
                 /\ result.val.vk = "list"
                 /\ \A i \in DOMAIN native.elems :
                       result.val.elems[i] =
                           CapsuleVal(ty.e, PtrTo(native.elems[i]))

\* A pointer to a pointer to a string: the capsule holds the inner pointer.
C14_Witness ==
    /\ Returned
    /\ native = PtrTo(PtrTo(GoString("a")))
    /\ ty = Capsule("string")
    /\ result.val = CapsuleVal(ty, PtrTo(GoString("a")))
    /\ result.err = NoErr

\* C15 (unwrapping terminates): the loop of unwrapPointer never dereferences
\* more often than the value has pointers and interfaces around it, and can
\* always take its next step until it returns; it returns after exactly that
\* many dereferences, with the zero Value when a level of the chain is nil
\* and otherwise with the first value that is neither pointer nor interface.
C15_UnwrapTerminates ==
    /\ pc = "unwrap" =>
          /\ steps <= Depth(native)
          /\ ENABLED NextUnwrap
    /\ pc = "unwrapped" =>
          /\ steps = Depth(native)
          /\ uval = IF EndsInNil(native) THEN ZeroValue
                    ELSE [n |-> Base(native), addr |-> Addressable(native)]
          /\ Kind(uval) \notin {"ptr", "iface"}
          /\ uval = unwrapPointer(ValueOf(native))

\* A pointer to an interface holding a nil pointer: two dereferences, then
\* absent.
C15_Witness ==
    /\ pc = "unwrapped"
    /\ native = PtrTo(Iface(NilPtr))
    /\ steps = 2
    /\ uval = ZeroValue

\* The line table starts with 0 and is strictly increasing.
LineTableOK ==
    /\ Len(lines) >= 1
    /\ lines[1] = 0
    /\ \A i \in 1..(Len(lines) - 1) : lines[i] < lines[i + 1]

\* C16 (line table invariant): after NewFile and any AddLine calls the line
\* table starts with 0 and is strictly increasing; an AddLine whose offset is
\* not larger than the last recorded offset leaves the table unchanged, and
\* one whose offset is larger appends exactly that offset.
C16_LineTable ==
    /\ []LineTableOK
    /\ [][last'.op = "AddLine" =>
            lines' = IF last'.offset <= lines[Len(lines)] THEN lines
                     ELSE Append(lines, last'.offset)]_vars
    /\ [][last'.op # "AddLine" => lines' = lines]_vars

\* Three lines were added, and the last AddLine, with an offset inside the
\* table, was ignored.
C16_Witness ==
    /\ Len(lines) = 4
    /\ last.op = "AddLine"
    /\ last.offset < lines[4]
    /\ last.offset > 0

\* The 1-based index of the greatest recorded line offset that is <= off.
LineOf(off) ==
    CHOOSE i \in DOMAIN lines :
        /\ lines[i] <= off
        /\ \A j \in DOMAIN lines : lines[j] <= off => lines[j] <= lines[i]

\* C17 (PositionFor), as claimed: for every Pos of the file with offset
\* off >= 0, PositionFor returns Offset = off, Line = the 1-based index of
\* the greatest recorded line offset <= off, and Column = off minus that
\* line offset plus 1; Line >= 1, Column >= 1, and the Position is valid.
C17_PositionFor ==
    (last.op = "PositionFor" /\ last.p # NoPos) =>
        LET off == last.p.off
            pos == last.position
        IN
        /\ pos.Offset = off
        /\ pos.Line = LineOf(off)
        /\ pos.Column = off - lines[LineOf(off)] + 1
        /\ pos.Line >= 1
        /\ pos.Column >= 1
        /\ PositionIsValid(pos)

\* The scrape manager holds the target groups of the stored config.
Delivered == manager.got = convertTargets(Targets(cfg))

\* C18 (scraper target delivery): the newTargets channel never holds more
\* than one notification and Update's send on it never blocks; and whenever
\* no Update is under way, the Run loop eventually hands the scrape manager
\* the target groups of the stored config, unless another Update begins, the
\* context is cancelled or the scrape manager stops receiving.  So the last
\* successful Update is delivered.
C18_TargetDelivery ==
    /\ [](newTargets \in {0, 1})
    /\ [](upd.pc = "notify" => ENABLED UpdateNotify)
    /\ (upd.pc = "idle") ~>
          (Delivered \/ upd.pc # "idle" \/ ctxDone \/ manager.state = "stopped")

\* The second Update found its notification already pending (coalesced),
\* and the scrape manager has the targets of its config.
C18_Witness ==
    /\ upd.pc = "idle"
    /\ upd.notified = "default"
    /\ cfg.id >= 2
    /\ cfg = upd.cfg
    /\ Delivered
    /\ ~ctxDone
    /\ manager.state = "receiving"

\* C19 (scraper shutdown): once the context is cancelled Run eventually
\* returns, and it returns nil, whatever state it is in: not yet in its
\* loop, waiting for the mutex, blocked on a scrape manager that no longer
\* receives, or with a notification pending.
C19_Shutdown ==
    /\ ctxDone ~> (run.pc = "returned")
    /\ [](run.pc = "returned" => (run.ret = "nil" /\ ctxDone))

\* Run has returned from a send that only the cancellation ended (the scrape
\* manager never received anything), with a notification still pending.
C19_Witness ==
    /\ run.pc = "returned"
    /\ run.woke = "ctx"
    /\ manager.got = NoTargets
    /\ newTargets = 1

\* C20 (Update failure is atomic): no step of an Update call up to the
\* outcome of ApplyConfig writes the stored config, the receiver or the
\* notification channel, and when ApplyConfig fails Update returns an error
\* there; the stored config, the receiver and a new notification are written
\* only by an Update whose ApplyConfig succeeded.
C20_UpdateAtomic ==
    /\ [][(upd' # upd /\ upd.pc \in {"idle", "lock", "apply"})
            => UNCHANGED <<cfg, inner, newTargets>>]_vars
    /\ [][(upd.pc = "apply" /\ upd'.pc = "idle") => upd'.ret = "error"]_vars
    /\ [][(upd'.ret = "error" /\ upd.ret # "error") => upd.pc = "apply"]_vars
    /\ [][(cfg' # cfg \/ inner' # inner \/ newTargets' > newTargets)
            => (upd' # upd /\ upd.pc \in {"set", "store", "notify"})]_vars
    /\ [][cfg' # cfg => (upd.pc = "store" /\ cfg' = upd.cfg)]_vars

\* A third Update has failed: the config of the second is still stored, the
\* receiver it named was not set, and the channel that Run emptied meanwhile
\* got no notification.
C20_Witness ==
    /\ upd.pc = "idle"
    /\ upd.ret = "error"
    /\ upd.cfg.id = 3
    /\ cfg.id = 2
    /\ upd.cfg.receiver = "r2"
    /\ inner = "r1"
    /\ newTargets = 0

====
